---- MODULE Spec2Model ----
(***************************************************************************)
(* Model of backend/app.py: the quiz endpoint (upload_pdf), the question   *)
(* answering endpoint (ask_pdf), the schedule endpoint                     *)
(* (generate_schedule_endpoint with generate_study_schedule_from_pdf and   *)
(* generate_fallback_schedule), the score history they read, requests      *)
(* served in concurrent threads, and login_user with register_user.        *)
(*                                                                         *)
(* Strings are sequences of tokens.  A token is one character (a digit,    *)
(* ":", ".", ")", "-", " ") or a whole word that the code never looks      *)
(* into ("Day", "Topics", "Question", ...), so startswith, in, split,      *)
(* replace and strip are computed on the tokens as Python computes them on *)
(* the characters.  A text is a sequence of lines (its split on newline).  *)
(* A Python dict is a function whose domain is the set of its keys.        *)
(***************************************************************************)
EXTENDS Integers, Sequences, FiniteSets, TLC

(***************************************************************************)
(* Bounds of the model.                                                    *)
(***************************************************************************)
MaxLines == 3
MaxDays == 2
MaxAttempts == 6
MaxBlocks == 11
MaxChunks == 4
MaxThreads == 2
MaxClients == 2
MaxLessons == 6
MaxStudyDays == 4

(***************************************************************************)
(* Python string operations on token sequences.                            *)
(***************************************************************************)
Whitespace == {" "}

RECURSIVE LStrip(_)
LStrip(s) == IF s # <<>> /\ Head(s) \in Whitespace THEN LStrip(Tail(s)) ELSE s

RECURSIVE RStrip(_)
RStrip(s) ==
    IF s # <<>> /\ s[Len(s)] \in Whitespace THEN RStrip(SubSeq(s, 1, Len(s) - 1)) ELSE s

Strip(s) == RStrip(LStrip(s))

StartsWith(s, p) == Len(s) >= Len(p) /\ SubSeq(s, 1, Len(p)) = p

StartsWithAny(s, ps) == \E p \in ps : StartsWith(s, p)

\* str.find: the first index where p occurs in s, 0 when it does not occur
Find(s, p) ==
    LET hits == {i \in 1..(Len(s) - Len(p) + 1) : SubSeq(s, i, i + Len(p) - 1) = p}
    IN  IF hits = {} THEN 0 ELSE CHOOSE i \in hits : \A j \in hits : i <= j

Contains(s, p) == Find(s, p) # 0

\* s.replace(p, ''): every occurrence removed, scanning left to right
RECURSIVE Remove(_, _)
Remove(s, p) ==
    LET i == Find(s, p)
    IN  IF i = 0 THEN s
        ELSE SubSeq(s, 1, i - 1) \o Remove(SubSeq(s, i + Len(p), Len(s)), p)

\* s.split(p)[0]
SplitFirst(s, p) ==
    LET i == Find(s, p) IN IF i = 0 THEN s ELSE SubSeq(s, 1, i - 1)

\* s.split(p)[1], for s that contains p
SplitSecond(s, p) ==
    LET i == Find(s, p)
        rest == SubSeq(s, i + Len(p), Len(s))
    IN  SplitFirst(rest, p)

Digit(d) == CASE d = 0 -> "0" [] d = 1 -> "1" [] d = 2 -> "2" [] d = 3 -> "3"
              [] d = 4 -> "4" [] d = 5 -> "5" [] d = 6 -> "6" [] d = 7 -> "7"
              [] d = 8 -> "8" [] d = 9 -> "9"

\* str(n) of a natural number: its decimal digits
RECURSIVE IntStr(_)
IntStr(n) == IF n < 10 THEN <<Digit(n)>> ELSE IntStr(n \div 10) \o <<Digit(n % 10)>>

\* a Python dict
EmptyDict == [k \in {} |-> <<>>]
DictSet(d, k, v) == [x \in (DOMAIN d) \cup {k} |-> IF x = k THEN v ELSE d[x]]
Truthy(d) == DOMAIN d # {}

\* all texts of at most n lines drawn from the set of lines L
TextsOf(L, n) == UNION {[1..k -> L] : k \in 0..n}


(***************************************************************************)
(* Request inputs.                                                         *)
(***************************************************************************)
\* request.files / file.filename: no 'file' part, a part with an empty name, a file
Files == {"missing", "noname", "ok"}

\* what extract_text_from_pdf returns when it does not raise
DocTexts == {<<>>, <<" ">>, <<"doc">>}

\* what it returns to upload_pdf, which does not look at the text: an empty text or
\* a text with words
QuizDocTexts == {<<>>, <<"doc">>}

\* a form field: not sent, or sent with a text
Absent == [given |-> FALSE, text |-> <<>>]
Field(t) == [given |-> TRUE, text |-> t]

HoursFields == {Absent, Field(<<"2">>), Field(<<"2", ".", "5">>), Field(<<"x">>)}

DaysFields == {Field(IntStr(n)) : n \in 0..MaxDays}

Digits == {"0", "1", "2", "3", "4", "5", "6", "7", "8", "9"}
DigitVal(t) == CHOOSE d \in 0..9 : Digit(d) = t
AllDigits(s) == s # <<>> /\ \A i \in 1..Len(s) : s[i] \in Digits

RECURSIVE DigitsVal(_)
DigitsVal(s) ==
    IF s = <<>> THEN 0 ELSE 10 * DigitsVal(SubSeq(s, 1, Len(s) - 1)) + DigitVal(s[Len(s)])

\* int(text): defined on decimal digits, ValueError otherwise
IntOk(s) == AllDigits(Strip(s))
IntVal(s) == DigitsVal(Strip(s))

\* float(text) in hundredths: digits, or digits "." one or two digits; ValueError
\* for the other texts of the model
FloatOk(s) ==
    LET t == Strip(s)
        i == Find(t, <<".">>)
    IN  IF i = 0 THEN AllDigits(t)
        ELSE /\ AllDigits(SubSeq(t, 1, i - 1))
             /\ AllDigits(SubSeq(t, i + 1, Len(t)))
             /\ Len(t) - i <= 2
FloatVal(s) ==
    LET t == Strip(s)
        i == Find(t, <<".">>)
        frac == SubSeq(t, i + 1, Len(t))
    IN  IF i = 0 THEN 100 * DigitsVal(t)
        ELSE 100 * DigitsVal(SubSeq(t, 1, i - 1))
             + (IF Len(frac) = 1 THEN 10 * DigitsVal(frac) ELSE DigitsVal(frac))

\* str(x) of a float x given in hundredths: 200 is "2.0", 250 is "2.5", 225 is "2.25"
FloatStr(h) ==
    LET r == h % 100
    IN  IntStr(h \div 100) \o <<".">>
        \o (IF r % 10 = 0 THEN <<Digit(r \div 10)>> ELSE <<Digit(r \div 10), Digit(r % 10)>>)

\* int(request.form.get('duration_days', 14))
DefaultDays == 14
DaysOk(f) == ~f.given \/ IntOk(f.text)
DaysOf(f) == IF f.given THEN IntVal(f.text) ELSE DefaultDays

\* float(request.form.get('hours_per_day', 2))
DefaultHours == 2
HoursOk(f) == ~f.given \/ FloatOk(f.text)
HoursOf(f) == IF f.given THEN FloatVal(f.text) ELSE 100 * DefaultHours

(***************************************************************************)
(* The schedule extractor and the fallback schedule.                       *)
(***************************************************************************)
DayPrefix == <<"Day", " ">>
Colon == <<":">>
TopicsMark == <<"Topics", ":">>
DashTopicsMark == <<"-", " ">> \o TopicsMark
ActivitiesMark == <<"Activities", ":">>
DashActivitiesMark == <<"-", " ">> \o ActivitiesMark
DurationMark == <<"Duration", ":">>
DashDurationMark == <<"-", " ">> \o DurationMark

\* DayComplete, had it also asked for a non-empty topics value
DayCompleteNonEmptyTopics(cur) ==
    Truthy(cur) /\ "topics" \in DOMAIN cur /\ cur["topics"] # <<>>

\* the test that guards both appends to schedule
DayComplete(cur) == Truthy(cur) /\ "topics" \in DOMAIN cur

\* the elif tests: A or B and C is A or (B and C)
IsFieldLine(line, cur, dashMark, mark) ==
    StartsWith(line, dashMark) \/ (StartsWith(line, mark) /\ Truthy(cur))

FieldValue(line, dashMark, mark) == Strip(Remove(Remove(line, dashMark), mark))

\* ScheduleLine with the day in progress dropped at a line that no branch takes
ScheduleLineResetOnUnknown(cur, sched, raw) ==
    LET line == Strip(raw)
    IN  IF line = <<>> THEN [current_day |-> cur, schedule |-> sched]
        ELSE IF StartsWith(line, DayPrefix) THEN
            [current_day |-> DictSet(EmptyDict, "day", Strip(SplitFirst(line, Colon))),
             schedule |-> IF DayComplete(cur) THEN Append(sched, cur) ELSE sched]
        ELSE IF IsFieldLine(line, cur, DashTopicsMark, TopicsMark) THEN
            [current_day |-> DictSet(cur, "topics", FieldValue(line, DashTopicsMark, TopicsMark)),
             schedule |-> sched]
        ELSE IF IsFieldLine(line, cur, DashActivitiesMark, ActivitiesMark) THEN
            [current_day |->
                 DictSet(cur, "activities", FieldValue(line, DashActivitiesMark, ActivitiesMark)),
             schedule |-> sched]
        ELSE IF IsFieldLine(line, cur, DashDurationMark, DurationMark) THEN
            [current_day |->
                 DictSet(cur, "duration", FieldValue(line, DashDurationMark, DurationMark)),
             schedule |-> sched]
        ELSE [current_day |-> EmptyDict, schedule |-> sched]

\* one iteration of the loop over schedule_text.split('\n')
ScheduleLine(cur, sched, raw) ==
    LET line == Strip(raw)
    IN  IF line = <<>> THEN [current_day |-> cur, schedule |-> sched]
        ELSE IF StartsWith(line, DayPrefix) THEN
            [current_day |-> DictSet(EmptyDict, "day", Strip(SplitFirst(line, Colon))),
             schedule |-> IF DayComplete(cur) THEN Append(sched, cur) ELSE sched]
        ELSE IF IsFieldLine(line, cur, DashTopicsMark, TopicsMark) THEN
            [current_day |-> DictSet(cur, "topics", FieldValue(line, DashTopicsMark, TopicsMark)),
             schedule |-> sched]
        ELSE IF IsFieldLine(line, cur, DashActivitiesMark, ActivitiesMark) THEN
            [current_day |->
                 DictSet(cur, "activities", FieldValue(line, DashActivitiesMark, ActivitiesMark)),
             schedule |-> sched]
        ELSE IF IsFieldLine(line, cur, DashDurationMark, DurationMark) THEN
            [current_day |->
                 DictSet(cur, "duration", FieldValue(line, DashDurationMark, DurationMark)),
             schedule |-> sched]
        ELSE [current_day |-> cur, schedule |-> sched]

\* the append after the loop
ScheduleFlush(cur, sched) == IF DayComplete(cur) THEN Append(sched, cur) ELSE sched

FallbackDay(i, hours) ==
    [day |-> <<"Day", " ">> \o IntStr(i),
     topics |-> <<"Study", " ", "session", " ">> \o IntStr(i)
                \o <<":", " ", "Review", " ", "PDF", " ", "materials">>,
     activities |-> <<"Read", " ", "chapters,", " ", "take", " ", "notes,", " ",
                      "review", " ", "key", " ", "concepts">>,
     duration |-> FloatStr(hours) \o <<" ", "hours">>]

\* generate_fallback_schedule, had the loop been range(1, duration_days)
generate_fallback_schedule_short(duration_days, hours) ==
    [i \in 1..(duration_days - 1) |-> FallbackDay(i, hours)]

generate_fallback_schedule(duration_days, hours) ==
    [i \in 1..duration_days |-> FallbackDay(i, hours)]

\* ScheduleResult, had the test of an empty schedule been left out
ScheduleResultNoFallback(sched, duration_days, hours) == sched

\* the value generate_study_schedule_from_pdf returns after the loop
ScheduleResult(sched, duration_days, hours) ==
    IF sched = <<>> THEN generate_fallback_schedule(duration_days, hours) ELSE sched

\* lines the Completion Gateway may put in a schedule text
ScheduleLines ==
    { <<>>,
      <<"Day", " ", "1", ":">>,
      <<"Day", " ", "2", ":">>,
      <<"-", " ", "Topics", ":", " ", "intro">>,
      <<" ", "Topics", ":", " ", "advanced">>,
      <<"-", " ", "Topics", ":">>,
      <<"-", " ", "Activities", ":", " ", "read">>,
      <<"Duration", ":", " ", "1", " ", "hour">>,
      <<"note">> }

\* a text with a full day and a day that has only its topics
ExampleScheduleText ==
    << <<"Day", " ", "1", ":">>,
       <<"-", " ", "Topics", ":", " ", "intro">>,
       <<"-", " ", "Activities", ":", " ", "read">>,
       <<"-", " ", "Duration", ":", " ", "1", " ", "hour">>,
       <<"Day", " ", "2", ":">>,
       <<"-", " ", "Topics", ":", " ", "advanced">> >>

\* the texts the API may return for a schedule
ScheduleTexts == TextsOf(ScheduleLines, MaxLines) \cup {ExampleScheduleText}

(***************************************************************************)
(* The quiz extractor.                                                     *)
(***************************************************************************)
MaxLabel == 10
\* QuestionLabels, had the tuple of labels stopped at '9.'
QuestionLabelsUpToNine == {IntStr(n) \o <<".">> : n \in 1..9}
\* QuestionLabels, had the tuple of labels gone on to '11.'
QuestionLabelsUpToEleven == {IntStr(n) \o <<".">> : n \in 1..(MaxLabel + 1)}
QuestionLabels == {IntStr(n) \o <<".">> : n \in 1..MaxLabel}
QuestionMark == <<"Question", ":">>
OptionLabels == {<<"A", ")">>, <<"B", ")">>, <<"C", ")">>, <<"D", ")">>, <<"E", ")">>}
AnswerMark == <<"Correct", " ", "Answer", ":">>
ExplanationMark == <<"Explanation", ":">>

\* IsQuestionLine without the test of the label
IsQuestionLineAnyLabel(line) == Contains(line, QuestionMark)

\* the test of the first branch: a numbered label and 'Question:' in the line
IsQuestionLine(line) == StartsWithAny(line, QuestionLabels) /\ Contains(line, QuestionMark)

\* QuestionComplete, had it also asked for a non-empty prompt
QuestionCompleteNonEmptyPrompt(cur) ==
    Truthy(cur) /\ "question" \in DOMAIN cur /\ cur["question"] # <<>>

\* the test that guards both appends to quiz_data
QuestionComplete(cur) == Truthy(cur) /\ "question" \in DOMAIN cur

NewQuestion(line) ==
    [question |-> Strip(SplitSecond(line, QuestionMark)), options |-> <<>>, explanation |-> <<>>]

\* QuizLine with the options of the question before left in the new record
QuizLineCarryOver(cur, quiz, raw) ==
    LET line == Strip(raw)
    IN  IF line = <<>> THEN [current_question |-> cur, quiz_data |-> quiz]
        ELSE IF IsQuestionLine(line) THEN
            [current_question |->
                 DictSet(NewQuestion(line), "options",
                         IF Truthy(cur) THEN cur["options"] ELSE <<>>),
             quiz_data |-> IF QuestionComplete(cur) THEN Append(quiz, cur) ELSE quiz]
        ELSE IF StartsWithAny(line, OptionLabels) /\ Truthy(cur) THEN
            [current_question |-> DictSet(cur, "options", Append(cur["options"], Strip(line))),
             quiz_data |-> quiz]
        ELSE IF StartsWith(line, AnswerMark) /\ Truthy(cur) THEN
            [current_question |-> DictSet(cur, "answer", Strip(Remove(line, AnswerMark))),
             quiz_data |-> quiz]
        ELSE IF StartsWith(line, ExplanationMark) /\ Truthy(cur) THEN
            [current_question |->
                 DictSet(cur, "explanation", Strip(Remove(line, ExplanationMark))),
             quiz_data |-> quiz]
        ELSE [current_question |-> cur, quiz_data |-> quiz]

\* one iteration of the loop over quiz_response.split('\n')
QuizLine(cur, quiz, raw) ==
    LET line == Strip(raw)
    IN  IF line = <<>> THEN [current_question |-> cur, quiz_data |-> quiz]
        ELSE IF IsQuestionLine(line) THEN
            [current_question |-> NewQuestion(line),
             quiz_data |-> IF QuestionComplete(cur) THEN Append(quiz, cur) ELSE quiz]
        ELSE IF StartsWithAny(line, OptionLabels) /\ Truthy(cur) THEN
            [current_question |-> DictSet(cur, "options", Append(cur["options"], Strip(line))),
             quiz_data |-> quiz]
        ELSE IF StartsWith(line, AnswerMark) /\ Truthy(cur) THEN
            [current_question |-> DictSet(cur, "answer", Strip(Remove(line, AnswerMark))),
             quiz_data |-> quiz]
        ELSE IF StartsWith(line, ExplanationMark) /\ Truthy(cur) THEN
            [current_question |->
                 DictSet(cur, "explanation", Strip(Remove(line, ExplanationMark))),
             quiz_data |-> quiz]
        ELSE [current_question |-> cur, quiz_data |-> quiz]

\* the append after the loop
QuizFlush(cur, quiz) == IF QuestionComplete(cur) THEN Append(quiz, cur) ELSE quiz

\* lines the Completion Gateway may put in a quiz text
QuizLines ==
    { <<>>,
      <<"1", ".", " ", "Question", ":", " ", "q1">>,
      <<"2", ".", " ", "Question", ":">>,
      <<"1", "1", ".", " ", "Question", ":", " ", "q11">>,
      <<" ", "A", ")", " ", "x">>,
      <<"B", ")", " ", "y">>,
      <<"Correct", " ", "Answer", ":", " ", "A", ")", " ", "x">>,
      <<"Explanation", ":", " ", "e">>,
      <<"Options", ":">> }

(***************************************************************************)
(* Texts in the format of llm_func1's system prompt: blocks numbered       *)
(* 1..n, each a question line, "Options:", four or five option lines, a    *)
(* correct-answer line and an explanation line.                            *)
(***************************************************************************)
OptionLetter(k) == CASE k = 1 -> "A" [] k = 2 -> "B" [] k = 3 -> "C" [] k = 4 -> "D" [] k = 5 -> "E"

BlockPrompt(n) == <<"q">> \o IntStr(n)
BlockOption(n, k) == <<OptionLetter(k), ")", " ", "o">> \o IntStr(n)

\* the number of options of block n under option pattern v
OptionPatterns == {"four", "five", "four-five", "five-four"}
OptionCount(v, n) ==
    CASE v = "four" -> 4
      [] v = "five" -> 5
      [] v = "four-five" -> IF n % 2 = 1 THEN 4 ELSE 5
      [] v = "five-four" -> IF n % 2 = 1 THEN 5 ELSE 4

Block(v, n) ==
    << IntStr(n) \o <<".", " ">> \o QuestionMark \o <<" ">> \o BlockPrompt(n),
       <<" ", "Options", ":">> >>
    \o [k \in 1..OptionCount(v, n) |-> <<" ">> \o BlockOption(n, k)]
    \o << <<" ">> \o AnswerMark \o <<" ">> \o BlockOption(n, 1),
          <<" ">> \o ExplanationMark \o <<" ", "because">> >>

RECURSIVE WellFormedText(_, _)
WellFormedText(v, n) == IF n = 0 THEN <<>> ELSE WellFormedText(v, n - 1) \o Block(v, n)

\* the texts in the format, by option pattern and number of blocks
WellFormedTexts == [v \in OptionPatterns, n \in 1..MaxBlocks |-> WellFormedText(v, n)]

(***************************************************************************)
(* The score history and the difficulty selection of upload_pdf.           *)
(***************************************************************************)
Users == {1, 2}

\* the (user_id, score, total_questions) a submit_quiz request may carry
SubmitInputs ==
    { [user_id |-> 1, score |-> 0, total_questions |-> 1],
      [user_id |-> 1, score |-> 4, total_questions |-> 5],
      [user_id |-> 1, score |-> 1, total_questions |-> 1],
      [user_id |-> 2, score |-> 0, total_questions |-> 1],
      [user_id |-> 1, score |-> 1, total_questions |-> 0] }

RECURSIVE SumSeq(_)
SumSeq(s) == IF s = <<>> THEN 0 ELSE Head(s) + SumSeq(Tail(s))

RECURSIVE ProdSeq(_)
ProdSeq(s) == IF s = <<>> THEN 1 ELSE Head(s) * ProdSeq(Tail(s))

\* WHERE user_id = ?
RowsOfUser(attempts, uid) == SelectSeq(attempts, LAMBDA a : a.user_id = uid)

\* AVG(score * 100.0 / total_questions) over rows, as the exact fraction num / den;
\* NULL (isnull) over no rows
Avg(rows) ==
    LET p == ProdSeq([i \in 1..Len(rows) |-> rows[i].total_questions])
    IN  [isnull |-> rows = <<>>,
         num |-> SumSeq([i \in 1..Len(rows) |->
                            100 * rows[i].score * (p \div rows[i].total_questions)]),
         den |-> p * Len(rows)]

\* the SELECT of upload_pdf: an aggregate without GROUP BY makes one result row from
\* all the rows the WHERE keeps; ORDER BY and LIMIT then apply to that one result row
WindowSize == 5
SelectAvgScore(attempts, uid) ==
    LET resultRows == << [avg_score |-> Avg(RowsOfUser(attempts, uid))] >>
    IN  SubSeq(resultRows, 1, IF Len(resultRows) < WindowSize THEN Len(resultRows) ELSE WindowSize)

HighMark == 80
LowMark == 50
\* TierOf, had the comparisons been >= and <=
TierOfInclusive(avg) ==
    IF avg.num >= HighMark * avg.den THEN "difficult"
    ELSE IF avg.num <= LowMark * avg.den THEN "easy"
    ELSE "medium"

\* the if / elif / else on avg_score
TierOf(avg) ==
    IF avg.num > HighMark * avg.den THEN "difficult"
    ELSE IF avg.num < LowMark * avg.den THEN "easy"
    ELSE "medium"

\* SelectDifficulty with 'medium' for a user without attempts
SelectDifficultyDefaultMedium(attempts, uid) ==
    LET result == SelectAvgScore(attempts, uid)
    IN  IF result # <<>> /\ ~result[1].avg_score.isnull
        THEN TierOf(result[1].avg_score)
        ELSE "medium"

\* difficulty after the adaptive block, the history lookup having succeeded
SelectDifficulty(attempts, uid) ==
    LET result == SelectAvgScore(attempts, uid)
    IN  IF result # <<>> /\ ~result[1].avg_score.isnull
        THEN TierOf(result[1].avg_score)
        ELSE "none"

\* llm_func1: the sentence about the difficulty that goes into the prompt
DifficultyPrompt(d) ==
    IF d # "none"
    THEN <<"Make sure the questions are at ", d, " difficulty level.">>
    ELSE <<>>

(***************************************************************************)
(* Documents, chunks and retrieval of ask_pdf.  A passage token stands for *)
(* a paragraph about as long as chunk_size, so that split_text returns the *)
(* paragraphs of a document one per chunk; the other documents are shorter *)
(* than chunk_size and give one chunk, or none for a blank text.           *)
(***************************************************************************)
TopK == 3

PassageNames == <<"passage1", "passage2", "passage3", "passage4", "passage5", "passage6">>
Passages == {PassageNames[i] : i \in 1..MaxChunks}
ParagraphBreak == <<"\n\n">>

RECURSIVE JoinWith(_, _)
JoinWith(ds, sep) ==
    IF ds = <<>> THEN <<>>
    ELSE IF Len(ds) = 1 THEN ds[1]
    ELSE ds[1] \o sep \o JoinWith(Tail(ds), sep)

\* the documents of several paragraphs: distinct passages in any order
LongDocs ==
    {JoinWith([i \in 1..Len(ps) |-> <<ps[i]>>], ParagraphBreak) :
        ps \in {s \in UNION {[1..k -> Passages] : k \in 2..MaxChunks} :
                    \A i, j \in 1..Len(s) : i # j => s[i] # s[j]}}

\* what extract_text_from_pdf returns to ask_pdf when it does not raise
AskDocTexts == DocTexts \cup LongDocs

\* request.form.get('question'): <<>> when it is not sent or empty
Questions == {<<>>, <<"q1">>, <<"q2">>}

\* s.split(sep)
RECURSIVE SplitOn(_, _)
SplitOn(s, sep) ==
    LET i == Find(s, sep)
    IN  IF i = 0 THEN <<s>>
        ELSE <<SubSeq(s, 1, i - 1)>> \o SplitOn(SubSeq(s, i + Len(sep), Len(s)), sep)

\* RecursiveCharacterTextSplitter(chunk_size=1000, chunk_overlap=200).split_text on
\* the documents of the model
SplitText(text) == IF Strip(text) = <<>> THEN <<>> ELSE SplitOn(Strip(text), ParagraphBreak)

\* the distance between the embeddings of a question and of a chunk: a table with
\* equal distances for q1, and all distances equal for q2
PassageNo(chunk) ==
    IF \E i \in 1..Len(PassageNames) : chunk = <<PassageNames[i]>>
    THEN CHOOSE i \in 1..Len(PassageNames) : chunk = <<PassageNames[i]>>
    ELSE 0
Distance(q, chunk) == IF q = <<"q2">> THEN 1 ELSE PassageNo(chunk) % 3

\* FAISS similarity_search(question, k): the k chunks of the index nearest to the
\* question, nearest first, the earlier chunk first among equal distances
Rank(index, q, i) ==
    1 + Cardinality({j \in 1..Len(index) :
            \/ Distance(q, index[j]) < Distance(q, index[i])
            \/ Distance(q, index[j]) = Distance(q, index[i]) /\ j < i})
SimilaritySearch(index, q, k) ==
    LET n == IF Len(index) < k THEN Len(index) ELSE k
    IN  [r \in 1..n |-> index[CHOOSE i \in 1..Len(index) : Rank(index, q, i) = r]]

\* "\n".join(...)
JoinLines(ds) == JoinWith(ds, <<"\n">>)

(***************************************************************************)
(* Concurrent requests.  Flask serves each request in a thread of its own; *)
(* the handler's variables are locals of the call.                         *)
(***************************************************************************)
NoResponse == [status |-> 0, body |-> EmptyDict]
ErrorResponse(code, msg) == [status |-> code, body |-> [error |-> msg]]

Threads == 1..MaxThreads

\* what the Completion Gateway returns to a thread, and the documents of ask_pdf
ThreadQuizTexts ==
    TextsOf({<<"1", ".", " ", "Question", ":", " ", "q1">>, <<"B", ")", " ", "y">>}, 2)
ThreadScheduleTexts ==
    TextsOf({<<"Day", " ", "1", ":">>, <<"-", " ", "Topics", ":", " ", "intro">>}, 2)
ThreadDocs == {<<"doc">>, <<"passage2">> \o ParagraphBreak \o <<"passage1">>}
ThreadInputs(o) ==
    CASE o = "quiz" -> ThreadQuizTexts
      [] o = "schedule" -> ThreadScheduleTexts
      [] o = "ask" -> ThreadDocs

\* the locals of a handler before the call
IdleThread ==
    [pc |-> "idle", op |-> "none", text |-> <<>>, pos |-> 1, current |-> EmptyDict,
     out |-> <<>>, result |-> NoResponse]

\* the loops over the lines of a text, from first line to flush
RECURSIVE QuizLoop(_, _, _)
QuizLoop(cur, quiz, text) ==
    IF text = <<>> THEN QuizFlush(cur, quiz)
    ELSE LET r == QuizLine(cur, quiz, Head(text))
         IN  QuizLoop(r.current_question, r.quiz_data, Tail(text))

RECURSIVE ScheduleLoop(_, _, _)
ScheduleLoop(cur, sched, text) ==
    IF text = <<>> THEN ScheduleFlush(cur, sched)
    ELSE LET r == ScheduleLine(cur, sched, Head(text))
         IN  ScheduleLoop(r.current_day, r.schedule, Tail(text))

(***************************************************************************)
(* Concurrent login_user and register_user requests.                       *)
(***************************************************************************)
Clients == 1..MaxClients

\* data.get('username'): "" when it is missing or empty
Usernames == {"", "alice", "bob"}

\* the locals of login_user or register_user before the call
IdleClient == [pc |-> "idle", kind |-> "none", username |-> "", response |-> NoResponse]

\* SELECT id FROM users WHERE username = ?: the id of the row, 0 when there is none
SelectUserId(rows, name) ==
    IF \E i \in 1..Len(rows) : rows[i] = name
    THEN CHOOSE i \in 1..Len(rows) : rows[i] = name
    ELSE 0

UserResponse(id, name) ==
    [status |-> 200, body |-> [success |-> TRUE, user_id |-> id, username |-> name]]

(***************************************************************************)
(* generate_schedule and generate_study_schedule: lessons over study days. *)
(* Hours are in hundredths; e9 marks a value 10^9 times as large, which is  *)
(* what the division by lessons_per_day + 1e-9 gives when lessons_per_day  *)
(* is 0.                                                                   *)
(***************************************************************************)
\* a key of request.json: missing, or given with a number
Missing == [given |-> FALSE, value |-> 0]
Given(n) == [given |-> TRUE, value |-> n]
JsonGet(x, default) == IF x.given THEN x.value ELSE default

DefaultLessons == 10
DefaultStudyDays == 5
TotalLessonsInputs == {Missing} \cup {Given(n) : n \in 0..MaxLessons}
StudyDaysInputs == {Missing} \cup {Given(n) : n \in 0..MaxStudyDays}
LessonHoursInputs == {Missing, Given(100), Given(250)}

\* LessonsToday, had the comparison been day < extra_lessons
LessonsTodayStrict(day, lessons_per_day, extra_lessons) ==
    lessons_per_day + (IF day < extra_lessons THEN 1 ELSE 0)

\* lessons_per_day + (1 if day <= extra_lessons else 0)
LessonsToday(day, lessons_per_day, extra_lessons) ==
    lessons_per_day + (IF day <= extra_lessons THEN 1 ELSE 0)

\* round(hours_per_day * lessons_today / (lessons_per_day + 1e-9), 2): the quotient
\* is just under the exact one, so a half rounds down
HoursToday(hours, lessons_today, lessons_per_day) ==
    IF lessons_per_day = 0
    THEN [hundredths |-> hours * lessons_today, e9 |-> lessons_today # 0]
    ELSE [hundredths |-> (2 * hours * lessons_today + lessons_per_day - 1)
                             \div (2 * lessons_per_day),
          e9 |-> FALSE]

DayLabel(day) == <<"Day", " ">> \o IntStr(day)

\* generate_study_schedule, for study_days >= 1
generate_study_schedule(total_lessons, hours, study_days) ==
    LET lessons_per_day == total_lessons \div study_days
        extra_lessons == total_lessons % study_days
    IN  [day \in 1..study_days |->
            LET lessons_today == LessonsToday(day, lessons_per_day, extra_lessons)
            IN  [Day |-> DayLabel(day),
                 LessonsToStudy |-> lessons_today,
                 TimeHours |-> HoursToday(hours, lessons_today, lessons_per_day)]]

\* the locals of generate_schedule before the call
IdleLessons ==
    [pc |-> "idle", total_lessons |-> 0, hours_per_day |-> 0, study_days |-> 0,
     lessons_per_day |-> 0, extra_lessons |-> 0, day |-> 0, schedule |-> <<>>,
     response |-> NoResponse]

(***************************************************************************)
(* State: one request at a time is followed from its arrival to its        *)
(* response; quiz_attempts is the table the requests share.                *)
(***************************************************************************)
VARIABLES
    pc,               \* position of the request being served
    op,               \* its endpoint
    adaptive,         \* upload_pdf: the 'adaptive' form field
    user_id,          \* upload_pdf: the 'user_id' form field, 0 when not sent
    duration_days,    \* schedule: int(duration_days)
    hours_field,      \* schedule: the 'hours_per_day' form field as sent
    hours_per_day,    \* schedule: float(hours_per_day), in hundredths
    extracted,        \* extract_text_from_pdf: "no", "raised" or "ok"
    pdf_text,         \* the text it returned
    gateway_calls,    \* calls of client.chat.completions.create made for the request
    gateway_failed,   \* whether such a call raised
    gen_text,         \* the lines of the text the Completion Gateway returned
    pos,              \* index in gen_text of the next line of the loop
    current_day,
    schedule,
    current_question,
    quiz_data,
    difficulty,
    lookup_failed,    \* upload_pdf: whether the query of the score history raised
    question,         \* ask_pdf: the 'question' form field
    texts,            \* ask_pdf: the chunks
    embedded,         \* ask_pdf: how many chunks the embedding model has embedded
    embedding_failed, \* ask_pdf: whether a call of the embedding model raised
    faiss_index,      \* ask_pdf: the chunks of the index create_faiss_index returned
    docs,             \* ask_pdf: the chunks similarity_search returned
    context,          \* ask_pdf: the context given to llm_func
    quiz_attempts,    \* rows of the table quiz_attempts, oldest first
    response,         \* the response sent: status 0 until there is one
    threads,          \* concurrent requests: the locals of the handler of each
    users,            \* rows of the table users, by id: the username of each
    clients,          \* concurrent login_user and register_user requests: their locals
    lessons           \* generate_schedule: the locals of the handler

vars == <<pc, op, adaptive, user_id, duration_days, hours_field, hours_per_day, extracted,
          pdf_text, gateway_calls, gateway_failed, gen_text, pos, current_day, schedule,
          current_question, quiz_data, lookup_failed, difficulty, question, texts, embedded,
          embedding_failed, faiss_index, docs, context, quiz_attempts, response, threads, users,
          clients, lessons>>

reqVars == <<adaptive, user_id, duration_days, hours_field, hours_per_day>>
docVars == <<extracted, pdf_text>>
gateVars == <<gateway_calls, gateway_failed, gen_text, pos>>
schedVars == <<current_day, schedule>>
quizVars == <<current_question, quiz_data, lookup_failed>>
accountVars == <<users, clients>>
concVars == <<threads, accountVars, lessons>>
askVars == <<question, texts, embedded, embedding_failed, faiss_index, docs, context>>

\* the variables of the request followed alone
pipelineVars == <<pc, op, reqVars, docVars, gateVars, schedVars, quizVars, difficulty, askVars,
                  quiz_attempts, response>>
handlerVars == <<pipelineVars, lessons>>


Init ==
    /\ pc = "idle"
    /\ op = "none"
    /\ adaptive = FALSE
    /\ user_id = 0
    /\ duration_days = 0
    /\ hours_field = Absent
    /\ hours_per_day = 0
    /\ extracted = "no"
    /\ pdf_text = <<>>
    /\ gateway_calls = 0
    /\ gateway_failed = FALSE
    /\ gen_text = <<>>
    /\ pos = 1
    /\ current_day = EmptyDict
    /\ schedule = <<>>
    /\ current_question = EmptyDict
    /\ quiz_data = <<>>
    /\ difficulty = "none"
    /\ lookup_failed = FALSE
    /\ question = <<>>
    /\ texts = <<>>
    /\ embedded = 0
    /\ embedding_failed = FALSE
    /\ faiss_index = <<>>
    /\ docs = <<>>
    /\ context = <<>>
    /\ quiz_attempts = <<>>
    /\ response = NoResponse
    /\ threads = [t \in Threads |-> IdleThread]
    /\ users = <<>>
    /\ clients = [c \in Clients |-> IdleClient]
    /\ lessons = IdleLessons

Respond(r) == pc' = "done" /\ response' = r

(***************************************************************************)
(* submit_quiz                                                             *)
(***************************************************************************)
SubmitQuiz ==
    /\ pc = "idle"
    /\ Len(quiz_attempts) < MaxAttempts
    /\ \E a \in SubmitInputs :
          \* not all([user_id, score is not None, total_questions]): 400, nothing stored
          /\ a.user_id # 0 /\ a.total_questions # 0
          /\ quiz_attempts' = Append(quiz_attempts, a)
    /\ UNCHANGED <<pc, op, reqVars, docVars, gateVars, schedVars, quizVars, difficulty,
                   askVars, response>>
    /\ UNCHANGED concVars

(***************************************************************************)
(* generate_schedule_endpoint and generate_study_schedule_from_pdf         *)
(***************************************************************************)
ScheduleResponse(sched) ==
    [status |-> 200,
     body |-> [schedule |-> sched, duration_days |-> duration_days,
               hours_per_day |-> hours_per_day]]

ScheduleRequest ==
    /\ pc = "idle"
    /\ op' = "schedule"
    /\ \E f \in Files, d \in DaysFields, h \in HoursFields :
          /\ hours_field' = h
          /\ IF f = "missing" THEN
                 /\ Respond(ErrorResponse(400, "No file provided"))
                 /\ UNCHANGED <<duration_days, hours_per_day>>
             ELSE IF ~(DaysOk(d) /\ HoursOk(h)) THEN
                 /\ Respond(ErrorResponse(400, "Invalid parameters"))
                 /\ UNCHANGED <<duration_days, hours_per_day>>
             ELSE
                 /\ duration_days' = DaysOf(d)
                 /\ hours_per_day' = HoursOf(h)
                 /\ IF f = "noname"
                    THEN Respond(ErrorResponse(400, "No file selected"))
                    ELSE pc' = "sched_extract" /\ UNCHANGED response
    /\ UNCHANGED <<adaptive, user_id, docVars, gateVars, schedVars, quizVars, difficulty,
                   askVars, quiz_attempts>>
    /\ UNCHANGED concVars

ScheduleExtract ==
    /\ pc = "sched_extract"
    /\ \/ /\ extracted' = "raised"
          /\ UNCHANGED pdf_text
          /\ Respond(ErrorResponse(500, "An error occurred"))
       \/ \E t \in DocTexts :
             /\ extracted' = "ok"
             /\ pdf_text' = t
             /\ IF Strip(t) = <<>>
                THEN Respond(ErrorResponse(400, "Could not extract text from the PDF file"))
                ELSE pc' = "sched_llm" /\ UNCHANGED response
    /\ UNCHANGED <<op, reqVars, gateVars, schedVars, quizVars, difficulty, askVars,
                   quiz_attempts>>
    /\ UNCHANGED concVars

\* the client is made and the gateway is called; a failure of either returns the fallback
ScheduleLlm ==
    /\ pc = "sched_llm"
    /\ \/ \* openai.OpenAI(...) raises: the outer except
          /\ Respond(ScheduleResponse(generate_fallback_schedule(duration_days, hours_per_day)))
          /\ UNCHANGED gateVars
       \/ \* client.chat.completions.create raises: the inner except
          /\ gateway_calls' = gateway_calls + 1
          /\ gateway_failed' = TRUE
          /\ Respond(ScheduleResponse(generate_fallback_schedule(duration_days, hours_per_day)))
          /\ UNCHANGED <<gen_text, pos>>
       \/ \E t \in ScheduleTexts :
             /\ gateway_calls' = gateway_calls + 1
             /\ gen_text' = t
             /\ pos' = 1
             /\ pc' = "sched_parse"
             /\ UNCHANGED <<gateway_failed, response>>
    /\ UNCHANGED <<op, reqVars, docVars, schedVars, quizVars, difficulty, askVars,
                   quiz_attempts>>
    /\ UNCHANGED concVars

ScheduleParseLine ==
    /\ pc = "sched_parse"
    /\ pos <= Len(gen_text)
    /\ LET r == ScheduleLine(current_day, schedule, gen_text[pos])
       IN  current_day' = r.current_day /\ schedule' = r.schedule
    /\ pos' = pos + 1
    /\ UNCHANGED <<pc, op, reqVars, docVars, gateway_calls, gateway_failed, gen_text,
                   quizVars, difficulty, askVars, quiz_attempts, response>>
    /\ UNCHANGED concVars

ScheduleFinish ==
    /\ pc = "sched_parse"
    /\ pos > Len(gen_text)
    /\ schedule' = ScheduleFlush(current_day, schedule)
    /\ Respond(ScheduleResponse(ScheduleResult(schedule', duration_days, hours_per_day)))
    /\ UNCHANGED <<op, reqVars, docVars, gateVars, current_day, quizVars, difficulty,
                   askVars, quiz_attempts>>
    /\ UNCHANGED concVars

(***************************************************************************)
(* upload_pdf                                                              *)
(***************************************************************************)
\* the texts llm_func1 may return: any lines, and the texts in the requested format
QuizTexts ==
    TextsOf(QuizLines, MaxLines)
    \cup {WellFormedTexts[v, n] : v \in OptionPatterns, n \in 1..MaxBlocks}

QuizResponse(quiz) ==
    [status |-> 200, body |-> [quiz |-> quiz, difficulty |-> difficulty, adaptive |-> adaptive]]

UploadRequest ==
    /\ pc = "idle"
    /\ op' = "quiz"
    /\ \E f \in Files, a \in BOOLEAN, u \in {0} \cup Users :
          IF f = "missing" THEN
              /\ Respond(ErrorResponse(400, "No file provided"))
              /\ UNCHANGED <<adaptive, user_id>>
          ELSE
              /\ adaptive' = a
              /\ user_id' = u
              /\ IF f = "noname"
                 THEN Respond(ErrorResponse(400, "No file selected"))
                 ELSE pc' = "up_extract" /\ UNCHANGED response
    /\ UNCHANGED <<duration_days, hours_field, hours_per_day, docVars, gateVars, schedVars,
                   quizVars, difficulty, askVars, quiz_attempts>>
    /\ UNCHANGED concVars

UploadExtract ==
    /\ pc = "up_extract"
    /\ \/ /\ extracted' = "raised"
          /\ UNCHANGED pdf_text
          /\ Respond(ErrorResponse(500, "str(e)"))
       \/ \E t \in QuizDocTexts :
             /\ extracted' = "ok"
             /\ pdf_text' = t
             /\ pc' = "up_difficulty"
             /\ UNCHANGED response
    /\ UNCHANGED <<op, reqVars, gateVars, schedVars, quizVars, difficulty, askVars,
                   quiz_attempts>>
    /\ UNCHANGED concVars

\* the adaptive block: a failure of the lookup leaves difficulty None
UploadDifficulty ==
    /\ pc = "up_difficulty"
    /\ IF adaptive /\ user_id # 0
       THEN \/ /\ difficulty' = SelectDifficulty(quiz_attempts, user_id)
               /\ UNCHANGED lookup_failed
            \/ \* the query raises: the inner except
               /\ difficulty' = "none"
               /\ lookup_failed' = TRUE
       ELSE difficulty' = "none" /\ UNCHANGED lookup_failed
    /\ pc' = "up_llm"
    /\ UNCHANGED <<op, reqVars, docVars, gateVars, schedVars, current_question, quiz_data,
                   askVars, quiz_attempts, response>>
    /\ UNCHANGED concVars

\* UploadLlm with the call made again after it raised
UploadLlmRetry ==
    /\ pc = "up_llm"
    /\ gateway_calls' = gateway_calls + 1
    /\ \/ /\ gateway_failed' = TRUE
          /\ UNCHANGED <<pc, response, gen_text, pos>>
       \/ \E t \in QuizTexts :
             /\ gen_text' = t
             /\ pos' = 1
             /\ pc' = "up_parse"
             /\ UNCHANGED <<gateway_failed, response>>
    /\ UNCHANGED <<op, reqVars, docVars, schedVars, quizVars, difficulty, askVars,
                   quiz_attempts>>
    /\ UNCHANGED concVars

UploadLlm ==
    /\ pc = "up_llm"
    /\ gateway_calls' = gateway_calls + 1
    /\ \/ /\ gateway_failed' = TRUE
          /\ Respond(ErrorResponse(500, "str(e)"))
          /\ UNCHANGED <<gen_text, pos>>
       \/ \E t \in QuizTexts :
             /\ gen_text' = t
             /\ pos' = 1
             /\ pc' = "up_parse"
             /\ UNCHANGED <<gateway_failed, response>>
    /\ UNCHANGED <<op, reqVars, docVars, schedVars, quizVars, difficulty, askVars,
                   quiz_attempts>>
    /\ UNCHANGED concVars

UploadParseLine ==
    /\ pc = "up_parse"
    /\ pos <= Len(gen_text)
    /\ LET r == QuizLine(current_question, quiz_data, gen_text[pos])
       IN  current_question' = r.current_question /\ quiz_data' = r.quiz_data
    /\ pos' = pos + 1
    /\ UNCHANGED <<pc, op, reqVars, docVars, gateway_calls, gateway_failed, gen_text,
                   schedVars, lookup_failed, difficulty, askVars, quiz_attempts, response>>
    /\ UNCHANGED concVars

UploadFinish ==
    /\ pc = "up_parse"
    /\ pos > Len(gen_text)
    /\ quiz_data' = QuizFlush(current_question, quiz_data)
    /\ Respond(QuizResponse(quiz_data'))
    /\ UNCHANGED <<op, reqVars, docVars, gateVars, schedVars, current_question,
                   lookup_failed, difficulty, askVars, quiz_attempts>>
    /\ UNCHANGED concVars

(***************************************************************************)
(* ask_pdf                                                                 *)
(***************************************************************************)
AskRequest ==
    /\ pc = "idle"
    /\ op' = "ask"
    /\ \E f \in Files, q \in Questions :
          /\ question' = q
          /\ IF f = "missing" THEN Respond(ErrorResponse(400, "No file provided"))
             ELSE IF q = <<>> THEN Respond(ErrorResponse(400, "No question provided"))
             ELSE IF f = "noname" THEN Respond(ErrorResponse(400, "No file selected"))
             ELSE pc' = "ask_extract" /\ UNCHANGED response
    /\ UNCHANGED <<reqVars, docVars, gateVars, schedVars, quizVars, difficulty, texts,
                   embedded, embedding_failed, faiss_index, docs, context, quiz_attempts>>
    /\ UNCHANGED concVars

AskExtract ==
    /\ pc = "ask_extract"
    /\ \/ /\ extracted' = "raised"
          /\ UNCHANGED pdf_text
          /\ Respond(ErrorResponse(500, "str(e)"))
       \/ \E t \in AskDocTexts :
             /\ extracted' = "ok"
             /\ pdf_text' = t
             /\ pc' = "ask_index"
             /\ UNCHANGED response
    /\ UNCHANGED <<op, reqVars, gateVars, schedVars, quizVars, difficulty, askVars,
                   quiz_attempts>>
    /\ UNCHANGED concVars

\* create_faiss_index, the split: FAISS.from_texts raises on an empty list of chunks
\* (it reads the dimension off the first vector)
AskIndex ==
    /\ pc = "ask_index"
    /\ texts' = SplitText(pdf_text)
    /\ IF texts' = <<>>
       THEN Respond(ErrorResponse(500, "str(e)"))
       ELSE pc' = "ask_embed" /\ UNCHANGED response
    /\ UNCHANGED <<op, reqVars, docVars, gateVars, schedVars, quizVars, difficulty, question,
                   embedded, embedding_failed, faiss_index, docs, context, quiz_attempts>>
    /\ UNCHANGED concVars

\* AskEmbed with a failed chunk left out of the index instead of raising
AskEmbedSkipFailed ==
    /\ pc = "ask_embed"
    /\ embedded < Len(texts)
    /\ \/ /\ embedding_failed' = TRUE
          /\ faiss_index' = SubSeq(texts, 1, embedded)
          /\ pc' = "ask_search"
          /\ UNCHANGED <<embedded, response>>
       \/ /\ embedded' = embedded + 1
          /\ IF embedded' = Len(texts)
             THEN faiss_index' = texts /\ pc' = "ask_search"
             ELSE pc' = "ask_embed" /\ UNCHANGED faiss_index
          /\ UNCHANGED <<embedding_failed, response>>
    /\ UNCHANGED <<op, reqVars, docVars, gateVars, schedVars, quizVars, difficulty, question,
                   texts, docs, context, quiz_attempts>>
    /\ UNCHANGED concVars

\* create_faiss_index, FAISS.from_texts(texts, embeddings): the chunks are embedded
\* one after the other; the index is returned once all of them are, and an
\* exception of the embedding model leaves create_faiss_index without an index
AskEmbed ==
    /\ pc = "ask_embed"
    /\ embedded < Len(texts)
    /\ \/ /\ embedding_failed' = TRUE
          /\ Respond(ErrorResponse(500, "str(e)"))
          /\ UNCHANGED <<embedded, faiss_index>>
       \/ /\ embedded' = embedded + 1
          /\ IF embedded' = Len(texts)
             THEN faiss_index' = texts /\ pc' = "ask_search"
             ELSE pc' = "ask_embed" /\ UNCHANGED faiss_index
          /\ UNCHANGED <<embedding_failed, response>>
    /\ UNCHANGED <<op, reqVars, docVars, gateVars, schedVars, quizVars, difficulty, question,
                   texts, docs, context, quiz_attempts>>
    /\ UNCHANGED concVars

\* AskSearch with the first chunks of the document taken instead of the nearest
AskSearchDocumentOrder ==
    /\ pc = "ask_search"
    /\ \/ /\ embedding_failed' = TRUE
          /\ Respond(ErrorResponse(500, "str(e)"))
          /\ UNCHANGED <<docs, context>>
       \/ /\ docs' = SubSeq(faiss_index, 1,
                            IF Len(faiss_index) < TopK THEN Len(faiss_index) ELSE TopK)
          /\ context' = JoinLines(docs')
          /\ pc' = "ask_llm"
          /\ UNCHANGED <<embedding_failed, response>>
    /\ UNCHANGED <<op, reqVars, docVars, gateVars, schedVars, quizVars, difficulty, question,
                   texts, embedded, faiss_index, quiz_attempts>>
    /\ UNCHANGED concVars

\* similarity_search(question, k=3), which embeds the question, and the join of the
\* chunks found
AskSearch ==
    /\ pc = "ask_search"
    /\ \/ /\ embedding_failed' = TRUE
          /\ Respond(ErrorResponse(500, "str(e)"))
          /\ UNCHANGED <<docs, context>>
       \/ /\ docs' = SimilaritySearch(faiss_index, question, TopK)
          /\ context' = JoinLines(docs')
          /\ pc' = "ask_llm"
          /\ UNCHANGED <<embedding_failed, response>>
    /\ UNCHANGED <<op, reqVars, docVars, gateVars, schedVars, quizVars, difficulty, question,
                   texts, embedded, faiss_index, quiz_attempts>>
    /\ UNCHANGED concVars

\* llm_func(question, context)
AskLlm ==
    /\ pc = "ask_llm"
    /\ gateway_calls' = gateway_calls + 1
    /\ \/ /\ gateway_failed' = TRUE
          /\ Respond(ErrorResponse(500, "str(e)"))
       \/ /\ Respond([status |-> 200, body |-> [answer |-> "answer"]])
          /\ UNCHANGED gateway_failed
    /\ UNCHANGED <<op, reqVars, docVars, gen_text, pos, schedVars, quizVars, difficulty,
                   askVars, quiz_attempts>>
    /\ UNCHANGED concVars

(***************************************************************************)
(* Concurrent requests: thread t runs upload_pdf or                        *)
(* generate_study_schedule_from_pdf from the text the Completion Gateway   *)
(* returned to it, or ask_pdf from the text of its document.               *)
(***************************************************************************)
\* the schedule request of thread t asks for t days of DefaultHours hours
ThreadResponse(t, o, out) ==
    IF o = "quiz" THEN [status |-> 200, body |-> [quiz |-> out]]
    ELSE IF o = "schedule"
    THEN [status |-> 200, body |-> [schedule |-> ScheduleResult(out, t, 100 * DefaultHours)]]
    ELSE [status |-> 200, body |-> [answer |-> out]]

ThreadCall ==
    \E t \in Threads, o \in {"quiz", "schedule", "ask"} :
        /\ threads[t].pc = "idle"
        /\ \E text \in ThreadInputs(o) :
              threads' = [threads EXCEPT ![t] =
                             [IdleThread EXCEPT !.pc = IF o = "ask" THEN "index" ELSE "parse",
                                                !.op = o, !.text = text]]
        /\ UNCHANGED <<handlerVars, accountVars>>

\* ThreadParseLine, had current_question and current_day been module-level variables
ThreadParseLineShared ==
    \E t \in Threads :
        LET th == threads[t]
            shared == threads[1].current
            q == QuizLine(shared, th.out, th.text[th.pos])
            d == ScheduleLine(shared, th.out, th.text[th.pos])
        IN  /\ th.pc = "parse"
            /\ th.pos <= Len(th.text)
            /\ threads' = [threads EXCEPT
                    ![1].current = IF th.op = "quiz" THEN q.current_question ELSE d.current_day,
                    ![t].out = IF th.op = "quiz" THEN q.quiz_data ELSE d.schedule,
                    ![t].pos = th.pos + 1]
            /\ UNCHANGED <<handlerVars, accountVars>>

ThreadParseLine ==
    \E t \in Threads :
        LET th == threads[t]
            q == QuizLine(th.current, th.out, th.text[th.pos])
            d == ScheduleLine(th.current, th.out, th.text[th.pos])
        IN  /\ th.pc = "parse"
            /\ th.pos <= Len(th.text)
            /\ threads' = [threads EXCEPT
                    ![t].current = IF th.op = "quiz" THEN q.current_question ELSE d.current_day,
                    ![t].out = IF th.op = "quiz" THEN q.quiz_data ELSE d.schedule,
                    ![t].pos = th.pos + 1]
            /\ UNCHANGED <<handlerVars, accountVars>>

ThreadFinish ==
    \E t \in Threads :
        LET th == threads[t]
            out == IF th.op = "quiz" THEN QuizFlush(th.current, th.out)
                   ELSE ScheduleFlush(th.current, th.out)
        IN  /\ th.pc = "parse"
            /\ th.pos > Len(th.text)
            /\ threads' = [threads EXCEPT ![t].out = out, ![t].pc = "done",
                                          ![t].result = ThreadResponse(t, th.op, out)]
            /\ UNCHANGED <<handlerVars, accountVars>>

\* create_faiss_index: the index is a local of the handler
ThreadIndex ==
    \E t \in Threads :
        /\ threads[t].pc = "index"
        /\ threads' = [threads EXCEPT ![t].out = SplitText(threads[t].text), ![t].pc = "search"]
        /\ UNCHANGED <<handlerVars, accountVars>>

\* similarity_search on the handler's index, the join, and the answer to that context
ThreadSearch ==
    \E t \in Threads :
        LET context_t == JoinLines(SimilaritySearch(threads[t].out, <<"q1">>, TopK))
        IN  /\ threads[t].pc = "search"
            /\ threads' = [threads EXCEPT ![t].pc = "done",
                                          ![t].result = ThreadResponse(t, "ask", context_t)]
            /\ UNCHANGED <<handlerVars, accountVars>>

(***************************************************************************)
(* register_user and login_user, each request on a database connection of  *)
(* its own: the SELECT, and then the INSERT with its commit.               *)
(***************************************************************************)
ClientRequest ==
    \E c \in Clients, k \in {"login", "register"}, name \in Usernames :
        /\ clients[c].pc = "idle"
        /\ clients' = [clients EXCEPT ![c] =
               IF name = ""
               THEN [pc |-> "done", kind |-> k, username |-> name,
                     response |-> ErrorResponse(400, "Username is required")]
               ELSE [pc |-> "select", kind |-> k, username |-> name,
                     response |-> NoResponse]]
        /\ UNCHANGED <<handlerVars, threads, users>>

ClientSelect ==
    \E c \in Clients :
        LET cl == clients[c]
            id == SelectUserId(users, cl.username)
        IN  /\ cl.pc = "select"
            /\ clients' = [clients EXCEPT ![c] =
                   IF id = 0 THEN [cl EXCEPT !.pc = "insert"]
                   ELSE IF cl.kind = "register"
                   THEN [cl EXCEPT !.pc = "done",
                                   !.response = ErrorResponse(409, "Username already exists")]
                   ELSE [cl EXCEPT !.pc = "done",
                                   !.response = UserResponse(id, cl.username)]]
            /\ UNCHANGED <<handlerVars, threads, users>>

\* INSERT INTO users (username) and commit: username is UNIQUE, so the INSERT
\* raises sqlite3.IntegrityError when a row with the username has been committed
ClientInsert ==
    \E c \in Clients :
        LET cl == clients[c]
        IN  /\ cl.pc = "insert"
            /\ IF SelectUserId(users, cl.username) # 0
               THEN /\ clients' = [clients EXCEPT ![c] =
                           [cl EXCEPT !.pc = "done",
                                      !.response = ErrorResponse(500, "str(e)")]]
                    /\ UNCHANGED users
               ELSE /\ users' = Append(users, cl.username)
                    /\ clients' = [clients EXCEPT ![c] =
                           [cl EXCEPT !.pc = "done",
                                      !.response = UserResponse(Len(users) + 1, cl.username)]]
            /\ UNCHANGED <<handlerVars, threads>>

(***************************************************************************)
(* generate_schedule                                                       *)
(***************************************************************************)
\* the request and the two divisions: study_days = 0 raises ZeroDivisionError
LessonsRequest ==
    /\ lessons.pc = "idle"
    /\ \E t \in TotalLessonsInputs, h \in LessonHoursInputs, d \in StudyDaysInputs :
          LET total_lessons == JsonGet(t, DefaultLessons)
              hours == JsonGet(h, 100 * DefaultHours)
              study_days == JsonGet(d, DefaultStudyDays)
              got == [IdleLessons EXCEPT !.total_lessons = total_lessons,
                                         !.hours_per_day = hours,
                                         !.study_days = study_days]
          IN  lessons' =
                  IF study_days = 0
                  THEN [got EXCEPT !.pc = "done", !.response = ErrorResponse(500, "str(e)")]
                  ELSE [got EXCEPT !.pc = "loop",
                                   !.lessons_per_day = total_lessons \div study_days,
                                   !.extra_lessons = total_lessons % study_days,
                                   !.day = 1]
    /\ UNCHANGED <<pipelineVars, threads, accountVars>>

\* one iteration of the loop over range(1, study_days + 1)
LessonsDay ==
    /\ lessons.pc = "loop"
    /\ lessons.day <= lessons.study_days
    /\ LET lessons_today ==
               LessonsToday(lessons.day, lessons.lessons_per_day, lessons.extra_lessons)
       IN  lessons' =
               [lessons EXCEPT
                   !.schedule = Append(@, [day |-> DayLabel(lessons.day),
                                           lessons |-> lessons_today,
                                           hours |-> HoursToday(lessons.hours_per_day,
                                                                lessons_today,
                                                                lessons.lessons_per_day)]),
                   !.day = @ + 1]
    /\ UNCHANGED <<pipelineVars, threads, accountVars>>

LessonsFinish ==
    /\ lessons.pc = "loop"
    /\ lessons.day > lessons.study_days
    /\ lessons' = [lessons EXCEPT !.pc = "done",
                                  !.response = [status |-> 200,
                                                body |-> [schedule |-> lessons.schedule]]]
    /\ UNCHANGED <<pipelineVars, threads, accountVars>>

(***************************************************************************)
(* Specifications.  Spec follows one request on the initial database.      *)
(* SpecHistory follows quiz submissions and then a quiz request up to its  *)
(* call of llm_func1, where its difficulty is settled.                     *)
(***************************************************************************)
Next ==
    \/ ScheduleRequest \/ ScheduleExtract \/ ScheduleLlm \/ ScheduleParseLine \/ ScheduleFinish
    \/ UploadRequest \/ UploadExtract \/ UploadDifficulty \/ UploadLlm
    \/ UploadParseLine \/ UploadFinish
    \/ AskRequest \/ AskExtract \/ AskIndex \/ AskEmbed \/ AskSearch \/ AskLlm

Spec == Init /\ [][Next]_vars

NextHistory == SubmitQuiz \/ UploadRequest \/ UploadExtract \/ UploadDifficulty

SpecHistory == Init /\ [][NextHistory]_vars

NextThreads == ThreadCall \/ ThreadParseLine \/ ThreadFinish \/ ThreadIndex \/ ThreadSearch

SpecThreads == Init /\ [][NextThreads]_vars

NextAccounts == ClientRequest \/ ClientSelect \/ ClientInsert

SpecAccounts == Init /\ [][NextAccounts]_vars

NextLessons == LessonsRequest \/ LessonsDay \/ LessonsFinish

SpecLessons == Init /\ [][NextLessons]_vars

(***************************************************************************)
(* Properties.                                                             *)
(***************************************************************************)
ScheduleParsed == op = "schedule" /\ pc = "done" /\ gateway_calls = 1 /\ ~gateway_failed
QuizParsed == op = "quiz" /\ pc = "done" /\ gateway_calls = 1 /\ ~gateway_failed

IsDayLine(l) == StartsWith(Strip(l), DayPrefix)
IsTopicsLine(l) ==
    /\ ~IsDayLine(l)
    /\ StartsWith(Strip(l), DashTopicsMark) \/ StartsWith(Strip(l), TopicsMark)

\* the 'Day ' header lines of a text that a Topics line follows before the next header
HeadersWithTopics(text) ==
    {j \in 1..Len(text) :
        /\ IsDayLine(text[j])
        /\ \E k \in (j + 1)..Len(text) :
              /\ IsTopicsLine(text[k])
              /\ \A m \in (j + 1)..(k - 1) : ~IsDayLine(text[m])}

\* C1: every record of the schedule extractor's output was started by a 'Day ' header
\* line and carries both a label and topics; a Topics, Activities or Duration line seen
\* before any 'Day ' header never creates or contributes to an emitted record.
C1_EveryRecordHasLabelAndTopics ==
    \A i \in 1..Len(schedule) : {"day", "topics"} \subseteq DOMAIN schedule[i]

\* C2 as claimed: every record of the quiz extractor's output has a non-empty prompt; a
\* marker line with nothing after 'Question:' never produces an emitted record.
C2_EveryPromptNonEmpty ==
    \A i \in 1..Len(quiz_data) : quiz_data[i]["question"] # <<>>

\* C2 as amended: a record is flushed exactly when a numbered-question marker line
\* started it, whether or not its prompt is empty: the output has one record per marker
\* line of the text, in order, and the prompt of each is the stripped text that follows
\* 'Question:' on its marker line.
C2_OneRecordPerMarkerLine ==
    QuizParsed =>
        LET marks == SelectSeq(gen_text, LAMBDA l : IsQuestionLine(Strip(l)))
        IN  /\ Len(quiz_data) = Len(marks)
            /\ \A i \in 1..Len(marks) :
                  /\ "question" \in DOMAIN quiz_data[i]
                  /\ quiz_data[i]["question"] = Strip(SplitSecond(Strip(marks[i]), QuestionMark))

C2_Witness ==
    /\ QuizParsed
    /\ \E i \in 1..Len(quiz_data) : quiz_data[i]["question"] = <<>>

\* the records the blocks 1..n of a text in the documented format stand for
BlockRecordOk(r, v, i) ==
    /\ r["question"] = BlockPrompt(i)
    /\ r["question"] # <<>>
    /\ r["options"] = [k \in 1..OptionCount(v, i) |-> BlockOption(i, k)]
    /\ Len(r["options"]) \in {4, 5}

WellFormedParse(maxBlocks) ==
    QuizParsed =>
        \A v \in OptionPatterns, n \in 1..maxBlocks :
            gen_text = WellFormedTexts[v, n] =>
                /\ Len(quiz_data) = n
                /\ \A i \in 1..n : BlockRecordOk(quiz_data[i], v, i)

\* C3 as claimed: for every N >= 1, a text of N blocks numbered 1..N in the documented
\* format parses to exactly N records in numbered order, each with a non-empty prompt
\* and the 4 to 5 options of its own block.
C3_WellFormedAnyCount == WellFormedParse(MaxBlocks)

\* C3 as amended: the same for every N from 1 to 10, the labels the extractor knows.
C3_WellFormedUpToTen == WellFormedParse(10)

C3_Witness ==
    /\ QuizParsed
    /\ gen_text = WellFormedTexts["four-five", 10]
    /\ Len(quiz_data) = 10

\* the last n elements of a sequence
LastN(s, n) == IF Len(s) <= n THEN s ELSE SubSeq(s, Len(s) - n + 1, Len(s))

\* the percentage of an attempt, exact for the attempts of the model
Pct(a) == (100 * a.score) \div a.total_questions
PctSum(rows) == SumSeq([i \in 1..Len(rows) |-> Pct(rows[i])])
ExactPcts(rows) == \A i \in 1..Len(rows) : (100 * rows[i].score) % rows[i].total_questions = 0

\* the tier of the mean percentage of rows, by the thresholds 80 and 50
MeanTier(rows) ==
    IF PctSum(rows) > 80 * Len(rows) THEN "difficult"
    ELSE IF PctSum(rows) < 50 * Len(rows) THEN "easy"
    ELSE "medium"

\* C4: the difficulty tier is derived from the mean over only the 5 most recent
\* attempts of the user; older attempts never influence it.
C4_TierOfFiveMostRecent ==
    (pc = "up_llm" /\ difficulty # "none") =>
        difficulty = MeanTier(LastN(RowsOfUser(quiz_attempts, user_id), 5))

\* C5: for every non-empty score history the tier is 'difficult' exactly when the mean
\* percentage (of the attempts the selector averages: all those of the user) is
\* strictly greater than 80, 'easy' exactly when it is strictly less than 50, and
\* 'medium' otherwise; a mean of exactly 80 and a mean of exactly 50 give 'medium'.
C5_TierThresholds ==
    (pc = "up_llm" /\ difficulty # "none") =>
        LET rows == RowsOfUser(quiz_attempts, user_id)
            sum == PctSum(rows)
            n == Len(rows)
        IN  /\ n > 0 /\ ExactPcts(rows)
            /\ (difficulty = "difficult") <=> (sum > 80 * n)
            /\ (difficulty = "easy") <=> (sum < 50 * n)
            /\ (difficulty = "medium") <=> (sum >= 50 * n /\ sum <= 80 * n)
            /\ (sum = 80 * n \/ sum = 50 * n) => difficulty = "medium"

C5_Witness ==
    /\ pc = "up_llm"
    /\ difficulty = "medium"
    /\ LET rows == RowsOfUser(quiz_attempts, user_id)
       IN  Len(rows) > 1 /\ PctSum(rows) = 80 * Len(rows)

\* the schedule in the response of a schedule request
Returned == response.body.schedule

\* the hours-per-day value as supplied: the text of the form field, "2" by default
HoursLiteral == IF hours_field.given THEN hours_field.text ELSE IntStr(DefaultHours)

FallbackShape ==
    /\ response.status = 200
    /\ Len(Returned) = duration_days
    /\ \A i \in 1..duration_days : Returned[i].day = <<"Day", " ">> \o IntStr(i)

\* C6 as claimed: when the Completion Gateway call fails during generateSchedule, the
\* result has exactly 'days' records, labelled Day 1 .. Day days in order, and each
\* record's duration equals the literal hours-per-day value supplied (alone, or
\* followed by the unit ' hours').
C6_DurationIsTheLiteral ==
    (op = "schedule" /\ pc = "done" /\ gateway_failed /\ hours_field.given) =>
        /\ FallbackShape
        /\ \A i \in 1..duration_days :
              \/ Returned[i].duration = HoursLiteral
              \/ Returned[i].duration = HoursLiteral \o <<" ", "hours">>

\* C6 as amended: ... exactly 'days' records, labelled Day 1 .. Day days in order, and
\* each record's duration is the text '<h> hours', where <h> is the decimal text of the
\* float parsed from the supplied value, with at least one fractional digit ('2' gives
\* '2.0 hours'): it denotes the supplied number and is not the supplied text.
C6_DurationDenotesTheHours ==
    (op = "schedule" /\ pc = "done" /\ gateway_failed) =>
        /\ FallbackShape
        /\ \A i \in 1..duration_days :
              LET d == Returned[i].duration
                  h == SubSeq(d, 1, Len(d) - 2)
              IN  /\ Len(d) > 2
                  /\ SubSeq(d, Len(d) - 1, Len(d)) = <<" ", "hours">>
                  /\ Contains(h, <<".">>)
                  /\ FloatOk(h)
                  /\ FloatVal(h) = FloatVal(HoursLiteral)

C6_Witness ==
    /\ op = "schedule" /\ pc = "done" /\ gateway_failed
    /\ duration_days = 2
    /\ hours_field = Field(<<"2">>)
    /\ Returned[2].duration = <<"2", ".", "0", " ", "hours">>

\* generate_study_schedule_from_pdf was called and has returned or raised
ScheduleCalled ==
    op = "schedule" /\ pc = "done" /\ extracted = "ok" /\ Strip(pdf_text) # <<>>

\* C7: when the gateway call succeeds but the extractor yields zero day records, the
\* deterministic fallback schedule is returned; hence for days >= 1, any gateway outcome
\* and any generated text, generate_study_schedule_from_pdf returns a non-empty schedule
\* and never raises.
C7_FallbackOnEmptyParse ==
    /\ (ScheduleParsed /\ schedule = <<>>) =>
          /\ FallbackShape
          /\ \A i \in 1..duration_days :
                /\ Returned[i].topics = <<"Study", " ", "session", " ">> \o IntStr(i)
                                        \o <<":", " ", "Review", " ", "PDF", " ", "materials">>
                /\ Returned[i] = FallbackDay(i, hours_per_day)
    /\ (ScheduleCalled /\ duration_days >= 1) =>
          /\ response.status = 200
          /\ Returned # <<>>
    /\ (ScheduleParsed /\ schedule # <<>>) => Returned = schedule

C7_Witness ==
    /\ ScheduleParsed
    /\ schedule = <<>>
    /\ duration_days >= 1
    /\ \E j \in 1..Len(gen_text) : IsDayLine(gen_text[j])

\* C8 as claimed: a day record is flushed only if its topics field is non-empty; a
\* 'Day ' header followed by no Topics line, or by a Topics line whose value is empty,
\* never yields an emitted record.  (Stated of the records a 'Day ' header started.)
C8_EmittedTopicsNonEmpty ==
    \A i \in 1..Len(schedule) :
        "day" \in DOMAIN schedule[i] =>
            "topics" \in DOMAIN schedule[i] /\ schedule[i]["topics"] # <<>>

\* C8 as amended: a day record is flushed only if a Topics line set its topics field,
\* whether or not the value is empty: every emitted record has the field, and the
\* records started by a 'Day ' header are as many as the headers that a Topics line
\* follows before the next header; a header followed by no Topics line yields none.
C8_EmittedIffTopicsLine ==
    /\ \A i \in 1..Len(schedule) : "topics" \in DOMAIN schedule[i]
    /\ ScheduleParsed =>
          Cardinality({i \in 1..Len(schedule) : "day" \in DOMAIN schedule[i]})
              = Cardinality(HeadersWithTopics(gen_text))

C8_Witness ==
    /\ ScheduleParsed
    /\ \E i \in 1..Len(schedule) :
          "day" \in DOMAIN schedule[i] /\ schedule[i]["topics"] = <<>>
    /\ \E j \in 1..Len(gen_text) : IsDayLine(gen_text[j]) /\ j \notin HeadersWithTopics(gen_text)

\* C9: when quiz generation succeeds but the extractor yields zero records, the
\* response carries an explicit failure signal with the empty result; it is never the
\* response of a successful quiz that has zero questions.
C9_EmptyQuizIsSignalled ==
    (QuizParsed /\ quiz_data = <<>>) =>
        response.status # 200 \/ "error" \in DOMAIN response.body

\* C10: in each of the three operations, if text extraction fails or yields empty text,
\* the invocation ends in an error and the Completion Gateway is never called for it.
C10_ExtractionFailureIsFatal ==
    (extracted = "raised" \/ (extracted = "ok" /\ pdf_text = <<>>)) =>
        /\ gateway_calls = 0
        /\ pc = "done" => response.status >= 400

\* C11: in ask_pdf a failure of the embedding model, for a chunk while the index is
\* built or for the question, ends the request with an error without any call of
\* the Completion Gateway; an index is only ever searched when every chunk is in
\* it; and the Completion Gateway is called only after the split, the index and
\* the context are complete.
C11_EmbeddingFailureAborts ==
    op = "ask" =>
        /\ embedding_failed =>
               /\ pc = "done"
               /\ response.status = 500
               /\ gateway_calls = 0
               /\ docs = <<>>
        /\ faiss_index \in {<<>>, texts}
        /\ docs # <<>> => faiss_index = texts /\ embedded = Len(texts)
        /\ gateway_calls > 0 =>
               /\ texts = SplitText(pdf_text) /\ texts # <<>>
               /\ faiss_index = texts
               /\ docs # <<>>
               /\ context = JoinLines(docs)

\* the embedding model fails after it has embedded some chunks of a document
C11_Witness ==
    /\ op = "ask" /\ pc = "done"
    /\ embedding_failed
    /\ embedded >= 1 /\ embedded < Len(texts)
    /\ response.status = 500

\* C12: a request calls the Completion Gateway at most once; once a call of the
\* Completion Gateway or of the embedding model has failed the request makes no
\* further call of either, and it has ended with an error, or for a schedule with
\* the fallback schedule.
C12_NoSilentRetry ==
    /\ [](gateway_calls <= 1)
    /\ [](gateway_failed \/ embedding_failed =>
            /\ pc = "done"
            /\ \/ response.status = 500
               \/ /\ op = "schedule"
                  /\ response.status = 200
                  /\ response.body.schedule
                        = generate_fallback_schedule(duration_days, hours_per_day))
    /\ [][gateway_failed \/ embedding_failed =>
            /\ gateway_calls' = gateway_calls
            /\ embedded' = embedded
            /\ docs' = docs]_vars

\* the call of the Completion Gateway failed and the request is over
C12_Witness == gateway_failed /\ gateway_calls = 1 /\ pc = "done"

\* the response of a request served alone, from the text it was given
AloneResponse(t, o, text) ==
    CASE o = "quiz" -> ThreadResponse(t, o, QuizLoop(EmptyDict, <<>>, text))
      [] o = "schedule" -> ThreadResponse(t, o, ScheduleLoop(EmptyDict, <<>>, text))
      [] o = "ask" ->
            ThreadResponse(t, o, JoinLines(SimilaritySearch(SplitText(text), <<"q1">>, TopK)))

\* C13: however the steps of concurrent requests interleave, each request returns
\* the response it would return alone for the same text from the gateway, and a
\* step of one request leaves the current record, the output sequence and the
\* index of every other request as they were.
C13_InvocationIndependence ==
    /\ [](\A t \in Threads :
            threads[t].pc = "done" =>
                threads[t].result = AloneResponse(t, threads[t].op, threads[t].text))
    /\ [][\A t, u \in Threads :
            t # u /\ threads'[t] # threads[t] => threads'[u] = threads[u]]_vars

\* two requests are in the middle of their loops at the same time, each with a
\* record in progress
C13_Witness ==
    /\ threads[1].pc = "parse" /\ threads[1].pos = 2 /\ Truthy(threads[1].current)
    /\ threads[2].pc = "parse" /\ threads[2].pos = 2 /\ Truthy(threads[2].current)
    /\ threads[1].op # threads[2].op

\* the position in the document of a chunk that was found
ChunkIndex(chunk) == CHOOSE i \in 1..Len(texts) : texts[i] = chunk

\* chunk c comes before chunk d in the order of retrieval: it is nearer to the
\* question, or as near and earlier in the document
Before(c, d) ==
    \/ Distance(question, c) < Distance(question, d)
    \/ Distance(question, c) = Distance(question, d) /\ ChunkIndex(c) < ChunkIndex(d)

\* C14: once ask_pdf has searched its index, the context is the newline-joined
\* text of exactly min(3, number of chunks) chunks of the document, the nearest to
\* the question, nearest first and the earlier chunk first among equal distances,
\* whatever their order in the document.
C14_TopKContext ==
    op = "ask" /\ (pc = "ask_llm" \/ gateway_calls > 0) =>
        /\ Len(docs) = (IF Len(texts) < 3 THEN Len(texts) ELSE 3)
        /\ \A r \in 1..Len(docs) : \E i \in 1..Len(texts) : texts[i] = docs[r]
        /\ \A r \in 1..(Len(docs) - 1) : Before(docs[r], docs[r + 1])
        /\ \A i \in 1..Len(texts) :
               (\A r \in 1..Len(docs) : docs[r] # texts[i]) => Before(docs[Len(docs)], texts[i])
        /\ context = JoinWith(docs, <<"\n">>)

\* a document of more chunks than are retrieved, whose nearest chunk is not its
\* first and where two retrieved chunks are equally near
C14_Witness ==
    /\ op = "ask" /\ pc = "ask_llm"
    /\ Len(texts) > 3
    /\ docs[1] # texts[1]
    /\ \E r \in 1..(Len(docs) - 1) :
           Distance(question, docs[r]) = Distance(question, docs[r + 1])

\* C15: when upload_pdf reaches its call of llm_func1 for a request without
\* adaptation, without a user, for a user without recorded attempts, or after the
\* query of the history raised, the difficulty is none and the prompt carries no
\* difficulty sentence; and the difficulty step always goes on to that call
\* without a response having been sent.
C15_NoHistoryIsNone ==
    /\ [](pc = "up_llm"
           /\ (~adaptive \/ user_id = 0 \/ lookup_failed
                  \/ RowsOfUser(quiz_attempts, user_id) = <<>>)
           => /\ difficulty = "none"
              /\ DifficultyPrompt(difficulty) = <<>>
              /\ response = NoResponse)
    /\ [][pc = "up_difficulty" => pc' = "up_llm" /\ response' = NoResponse]_vars

\* an adaptive request of a user without attempts, while another user has some
C15_Witness ==
    /\ pc = "up_llm"
    /\ adaptive /\ user_id = 2 /\ ~lookup_failed
    /\ RowsOfUser(quiz_attempts, 2) = <<>>
    /\ RowsOfUser(quiz_attempts, 1) # <<>>
    /\ difficulty = "none"

\* a field of a record that is absent or holds the empty string
FieldEmpty(rec, k) == k \notin DOMAIN rec \/ rec[k] = <<>>

HasLineOf(text, dashed, plain) ==
    \E j \in 1..Len(text) :
        StartsWith(Strip(text[j]), dashed) \/ StartsWith(Strip(text[j]), plain)

\* C16: the schedule extractor emits as many records as the text has 'Day ' blocks
\* with a Topics line; a day without an Activities or Duration line is emitted with
\* that field empty; and the example text of a full day and a topics-only day
\* gives two records, the second with empty activities and duration.
C16_PartialDays ==
    ScheduleParsed =>
        /\ Len(schedule) = Cardinality(HeadersWithTopics(gen_text))
        /\ ~HasLineOf(gen_text, DashActivitiesMark, ActivitiesMark) =>
               \A i \in 1..Len(schedule) : FieldEmpty(schedule[i], "activities")
        /\ ~HasLineOf(gen_text, DashDurationMark, DurationMark) =>
               \A i \in 1..Len(schedule) : FieldEmpty(schedule[i], "duration")
        /\ gen_text = ExampleScheduleText =>
               /\ Len(schedule) = 2
               /\ schedule[1] = [day |-> <<"Day", " ", "1">>, topics |-> <<"intro">>,
                                 activities |-> <<"read">>,
                                 duration |-> <<"1", " ", "hour">>]
               /\ schedule[2]["day"] = <<"Day", " ", "2">>
               /\ schedule[2]["topics"] = <<"advanced">>
               /\ FieldEmpty(schedule[2], "activities")
               /\ FieldEmpty(schedule[2], "duration")

\* a line that begins, after its leading blanks, with one of the labels lo. to hi.
Labelled(l, lo, hi) ==
    LET s == Strip(l)
        digits == SubSeq(s, 1, Find(s, <<".">>) - 1)
    IN  /\ AllDigits(digits)
        /\ DigitsVal(digits) \in lo..hi
        /\ IntStr(DigitsVal(digits)) = digits

\* a line with a label from 1. to 10. and the marker 'Question:'
RecognizedMarker(l) == Labelled(l, 1, 10) /\ Contains(Strip(l), QuestionMark)

NoRecognizedMarker(text) == \A j \in 1..Len(text) : ~RecognizedMarker(text[j])

\* C17: on a text without any recognized 'Question:' marker line the quiz loop
\* never starts a record and never appends one, whatever option, answer or
\* explanation lines the text has, and the request ends without error with a quiz
\* of zero records.
C17_NoMarkerNoRecords ==
    /\ op = "quiz" /\ pc \in {"up_parse", "done"}
    /\ gateway_calls = 1 /\ ~gateway_failed
    /\ NoRecognizedMarker(gen_text)
    => /\ current_question = EmptyDict
       /\ quiz_data = <<>>
       /\ pos <= Len(gen_text) + 1
       /\ pc = "up_parse" => response = NoResponse
       /\ pc = "done" =>
              /\ pos = Len(gen_text) + 1
              /\ response.status = 200
              /\ response.body.quiz = <<>>

\* a parsed text of an option line, an answer or explanation line and a line with
\* the marker under a label above 10., without a recognized marker line
C17_Witness ==
    /\ QuizParsed
    /\ NoRecognizedMarker(gen_text)
    /\ \E j \in 1..Len(gen_text) : StartsWithAny(Strip(gen_text[j]), OptionLabels)
    /\ \E j \in 1..Len(gen_text) :
           StartsWith(gen_text[j], AnswerMark) \/ StartsWith(gen_text[j], ExplanationMark)
    /\ \E j \in 1..Len(gen_text) : Contains(gen_text[j], QuestionMark)

\* a line with the marker 'Question:' under a label from 11. on
HighLabelMarker(l) == Labelled(l, 11, 999) /\ Contains(Strip(l), QuestionMark)

\* C20: an iteration of the quiz loop on a line that is not a recognized marker
\* line, in particular on a line labelled 11. or higher that has 'Question:',
\* appends no record and starts none, so the record in progress stays that of the
\* most recent recognized marker line and takes the option lines that follow; the
\* output never has more records than the text has recognized marker lines.
C20_LabelsAboveTenIgnored ==
    /\ [][/\ op = "quiz" /\ pc = "up_parse" /\ pc' = "up_parse"
          /\ ~RecognizedMarker(gen_text[pos])
          => /\ quiz_data' = quiz_data
             /\ Truthy(current_question') <=> Truthy(current_question)
             /\ Truthy(current_question) =>
                    current_question'["question"] = current_question["question"]
             /\ HighLabelMarker(gen_text[pos]) => current_question' = current_question]_vars
    /\ [](QuizParsed =>
            /\ Len(quiz_data)
                 <= Cardinality({j \in 1..Len(gen_text) : RecognizedMarker(gen_text[j])})
            /\ \A j \in 2..(Len(gen_text) - 1) :
                   /\ RecognizedMarker(gen_text[j - 1])
                   /\ HighLabelMarker(gen_text[j])
                   /\ StartsWithAny(Strip(gen_text[j + 1]), OptionLabels)
                   => \E i \in 1..Len(quiz_data) :
                         /\ quiz_data[i]["question"]
                              = Strip(SplitSecond(Strip(gen_text[j - 1]), QuestionMark))
                         /\ \E k \in 1..Len(quiz_data[i]["options"]) :
                               quiz_data[i]["options"][k] = Strip(gen_text[j + 1]))

\* parsed: a recognized marker line, then a marker line labelled 11., then an
\* option line that went to the record of the first
C20_Witness ==
    /\ QuizParsed
    /\ Len(gen_text) = 3
    /\ RecognizedMarker(gen_text[1])
    /\ HighLabelMarker(gen_text[2])
    /\ StartsWithAny(Strip(gen_text[3]), OptionLabels)
    /\ Len(quiz_data) = 1
    /\ quiz_data[1]["options"] = <<Strip(gen_text[3])>>

\* C19: however concurrent login_user and register_user requests for one
\* username interleave, the table users holds at most one row for the username,
\* and every login_user request with a non-empty username ends with success and
\* the id of that row.
C19_LoginAlwaysSucceeds ==
    /\ \A i, j \in 1..Len(users) : users[i] = users[j] => i = j
    /\ \A c \in Clients :
           clients[c].pc = "done" /\ clients[c].kind = "login" /\ clients[c].username # ""
           => /\ SelectUserId(users, clients[c].username) # 0
              /\ clients[c].response
                   = UserResponse(SelectUserId(users, clients[c].username), clients[c].username)

\* a line of a quiz text that is blank or begins with none of the markers of the
\* quiz loop
UnmarkedQuizLine(l) ==
    /\ ~RecognizedMarker(l)
    /\ ~StartsWithAny(Strip(l), OptionLabels)
    /\ ~StartsWith(Strip(l), AnswerMark)
    /\ ~StartsWith(Strip(l), ExplanationMark)

\* a line of a schedule text that is blank or begins with none of the markers of
\* the schedule loop
UnmarkedScheduleLine(l) ==
    /\ ~StartsWith(Strip(l), DayPrefix)
    /\ ~StartsWithAny(Strip(l), {TopicsMark, DashTopicsMark, ActivitiesMark,
                                 DashActivitiesMark, DurationMark, DashDurationMark})

\* C21: an iteration of the quiz loop or of the schedule loop on a blank line or
\* on a line that matches none of the loop's markers leaves the record in progress
\* and the output sequence as they were, sends no response, and the loop goes on
\* to the next line.
C21_UnrecognizedLinesIgnored ==
    [][/\ (/\ op = "quiz" /\ pc = "up_parse" /\ pos <= Len(gen_text)
           /\ UnmarkedQuizLine(gen_text[pos]))
          => /\ pc' = "up_parse" /\ pos' = pos + 1
             /\ UNCHANGED <<current_question, quiz_data, response>>
       /\ (/\ op = "schedule" /\ pc = "sched_parse" /\ pos <= Len(gen_text)
           /\ UnmarkedScheduleLine(gen_text[pos]))
          => /\ pc' = "sched_parse" /\ pos' = pos + 1
             /\ UNCHANGED <<current_day, schedule, response>>]_vars

\* the schedule loop has passed a line of other words while a day was in progress
C21_Witness ==
    /\ op = "schedule" /\ pc = "sched_parse" /\ pos > 2
    /\ UnmarkedScheduleLine(gen_text[pos - 1]) /\ Strip(gen_text[pos - 1]) # <<>>
    /\ "day" \in DOMAIN current_day

\* the indices of the recognized marker lines of a text, in order
MarkerIndices(text) ==
    SelectSeq([j \in 1..Len(text) |-> j], LAMBDA j : RecognizedMarker(text[j]))

\* the lines of a text after its i-th marker line and before the next one
LinesOfQuestion(text, i) ==
    LET ms == MarkerIndices(text)
    IN  SubSeq(text, ms[i] + 1, IF i < Len(ms) THEN ms[i + 1] - 1 ELSE Len(text))

\* the stripped lines of a sequence that begin with one of the prefixes
LinesWith(lines, prefixes) ==
    LET hits == SelectSeq(lines, LAMBDA l : StartsWithAny(Strip(l), prefixes))
    IN  [k \in 1..Len(hits) |-> Strip(hits[k])]

\* C22: in a parsed quiz the records are those of the recognized marker lines, in
\* the order of these lines, and the i-th record holds what the lines between its
\* marker line and the next one give and nothing else: the option lines in input
\* order, the answer and the explanation of the last such line if there is one.
\* Option lines before the first marker line are in no record.
C22_OptionsStayInOrderAndPlace ==
    QuizParsed =>
        /\ Len(quiz_data) = Len(MarkerIndices(gen_text))
        /\ \A i \in 1..Len(quiz_data) :
               LET r == quiz_data[i]
                   own == LinesOfQuestion(gen_text, i)
                   answers == LinesWith(own, {AnswerMark})
                   explanations == LinesWith(own, {ExplanationMark})
               IN  /\ r["question"]
                        = Strip(SplitSecond(Strip(gen_text[MarkerIndices(gen_text)[i]]),
                                            QuestionMark))
                   /\ r["options"] = LinesWith(own, OptionLabels)
                   /\ ("answer" \in DOMAIN r) <=> (answers # <<>>)
                   /\ answers # <<>> =>
                          r["answer"] = Strip(Remove(answers[Len(answers)], AnswerMark))
                   /\ r["explanation"]
                        = (IF explanations = <<>> THEN <<>>
                           ELSE Strip(Remove(explanations[Len(explanations)],
                                             ExplanationMark)))

\* a parsed quiz of two records or more whose first two each have four options or
\* more and an answer, and differ
C22_Witness ==
    /\ QuizParsed
    /\ Len(quiz_data) >= 2
    /\ \A i \in 1..2 : Len(quiz_data[i]["options"]) >= 4 /\ "answer" \in DOMAIN quiz_data[i]
    /\ quiz_data[1]["options"] # quiz_data[2]["options"]

\* lesson counts that sum to total, differ by at most 1, never increase from a day to
\* a later one, and give the larger count to the first total % days days
EvenlySpread(counts, total, days) ==
    /\ Len(counts) = days
    /\ SumSeq(counts) = total
    /\ \A d, e \in 1..days : counts[d] - counts[e] <= 1
    /\ \A d, e \in 1..days : d < e => counts[d] >= counts[e]
    /\ \A d \in 1..days : (counts[d] > counts[days]) <=> (d <= total % days)

\* C23: for study_days >= 1 and total_lessons >= 0 generate_schedule answers 200
\* with exactly study_days entries labelled Day 1 .. Day study_days in order whose
\* lesson counts sum to total_lessons, differ by at most 1 and never increase, the
\* first total_lessons mod study_days days having one lesson more; and
\* generate_study_schedule returns such entries for the same arguments.
C23_LessonsEvenlySpread ==
    lessons.pc = "done" /\ lessons.study_days >= 1 =>
        LET days == lessons.study_days
            total == lessons.total_lessons
            sched == lessons.response.body.schedule
            other == generate_study_schedule(total, lessons.hours_per_day, days)
        IN  /\ lessons.response.status = 200
            /\ EvenlySpread([d \in 1..Len(sched) |-> sched[d].lessons], total, days)
            /\ \A d \in 1..days : sched[d].day = <<"Day", " ">> \o IntStr(d)
            /\ EvenlySpread([d \in 1..Len(other) |-> other[d].LessonsToStudy], total, days)
            /\ \A d \in 1..days : other[d].Day = <<"Day", " ">> \o IntStr(d)

\* a request with more lessons than days that do not divide evenly, and one with
\* fewer lessons than days, are both covered: here the first
C23_Witness ==
    /\ lessons.pc = "done"
    /\ lessons.response.status = 200
    /\ lessons.study_days >= 3
    /\ lessons.total_lessons > lessons.study_days
    /\ lessons.total_lessons % lessons.study_days >= 2

====
